---- MODULE Spec2Model ----
(***************************************************************************)
(* Connection registry (Hub), per-connection workers (serveWs, readPump,   *)
(* writePump) and timer engine (TimerManager) of the score-display server. *)
(*                                                                         *)
(* Goroutines are processes with a program counter.  A critical section    *)
(* under Hub.mu is one atomic step (no goroutine blocks while holding      *)
(* Hub.mu).  TimerManager.mu is held across the blocking send on the       *)
(* unbuffered Hub.Broadcast channel, so it is an explicit variable.  A     *)
(* send on an unbuffered hub channel is a rendezvous: one step in which    *)
(* the hub loop, idle in its select, takes the value and the sender goes   *)
(* on.                                                                     *)
(***************************************************************************)
EXTENDS Integers, Sequences, FiniteSets, TLC

\* ------------------------------------------------------------------ bounds
NumConns == 2      \* connections accepted during a run
SendCap == 1       \* capacity of Client.Send (256 in serveWs), scaled down
SendToCap == 1     \* capacity of Hub.SendTo (256 in NewHub), scaled down
MaxLimit == 1      \* largest configured Hub.MaxClients tried (0 = unlimited)
MaxSeconds == 2    \* largest reset duration carried on the wire
NumDrivers == 2    \* goroutine slots available to the tick driver

Conns == 1..NumConns
DriverIds == 1..NumDrivers
Seconds == 0..MaxSeconds
IDs == {"pi"}
Files == {"final.html"}
Modes == {"show_timer", "show_result"}
Names == {"bob", "Alice", "alice"}

VARIABLES
    tmState,           \* TimerManager.State: [Running, TimeLeft, TotalTime]
    ticker,            \* TimerManager.ticker: "nil" or "live"
    stopChan,          \* number of values buffered in TimerManager.stopChan (cap 1)
    tmMu,              \* holder of TimerManager.mu, or NoProc
    goroutineRunning,  \* TimerManager.goroutineRunning
    drv,               \* tick-driver goroutines: [pc, tickLive]
    crashed,           \* an unrecovered panic has ended the process
    Clients,           \* Hub.Clients, the live set
    ActiveResult,      \* Hub.State.ActiveResult
    MaxClients,        \* Hub.MaxClients
    SendTo,            \* Hub.SendTo, a buffered channel of jobs
    hub,               \* the Hub.Run goroutine: [pc, client, msg, toRemove, branch]
    srv,               \* the serveWs goroutine of each connection: [pc, msg]
    rd,                \* the readPump goroutine: [pc, msg, toRemove]
    wr,                \* the writePump goroutine: "none", "run", "done"
    sendQ,             \* contents of Client.Send
    closeOnce,         \* Client.closeOnce has fired
    closes,            \* number of times close(Client.Send) was executed
    client,            \* Client fields: [Name, ID, DisplayMode]
    connClosed,        \* Conn.Close() has been called on the socket
    readDeadline,      \* per connection: time left to the read deadline, time since the last signal
    errAttempts        \* enqueue attempts of the rejection `error` message

timerVars == <<tmState, ticker, stopChan, tmMu, goroutineRunning, drv, crashed>>
hubVars == <<Clients, ActiveResult, MaxClients, SendTo, hub>>
connVars == <<srv, rd, wr, sendQ, closeOnce, closes, client, connClosed, errAttempts,
             readDeadline>>
vars == <<timerVars, hubVars, connVars>>

\* pongWait, in units of time
PongWait == 2

NoProc == <<"free", 0>>
Reader(c) == <<"rd", c>>
Driver(d) == <<"drv", d>>
NoMsg == [type |-> "none"]

\* ----------------------------------------------------------------- messages
TimerUpdate(st) == [type |-> "timer_update", payload |-> st]
\* a set_result envelope that has lost its file
SetResultMsgBlank(f) == [type |-> "set_result", file |-> ""]
SetResultMsg(f) == [type |-> "set_result", file |-> f]
DisplayModeMsg(m) == [type |-> "display_mode", payload |-> m]
UpdateConfigMsg(v) == [type |-> "update_config", key |-> "ClientName", value |-> v]
ErrorMsg == [type |-> "error", payload |-> "Server connection limit reached"]
ClientListMsg(list) == [type |-> "client_list", payload |-> list]

\* ------------------------------------------------------------------- Init
Init ==
    /\ tmState = [Running |-> FALSE, TimeLeft |-> 0, TotalTime |-> 0]
    /\ ticker = "nil"
    /\ stopChan = 0
    /\ tmMu = NoProc
    /\ goroutineRunning = FALSE
    /\ drv = [d \in DriverIds |-> [pc |-> "none", tickLive |-> FALSE]]
    /\ crashed = FALSE
    /\ Clients = {}
    /\ ActiveResult = ""
    /\ MaxClients \in 0..MaxLimit
    /\ SendTo = <<>>
    /\ hub = [pc |-> "idle", client |-> 0, msg |-> NoMsg, toRemove |-> {}, branch |-> "none"]
    /\ srv = [c \in Conns |-> [pc |-> "none", msg |-> NoMsg]]
    /\ rd = [c \in Conns |-> [pc |-> "none", msg |-> NoMsg, toRemove |-> {}]]
    /\ wr = [c \in Conns |-> "none"]
    /\ sendQ = [c \in Conns |-> <<>>]
    /\ closeOnce = [c \in Conns |-> FALSE]
    /\ closes = [c \in Conns |-> 0]
    /\ client = [c \in Conns |-> [Name |-> "", ID |-> "", DisplayMode |-> ""]]
    /\ connClosed = [c \in Conns |-> FALSE]
    /\ readDeadline = [c \in Conns |-> [left |-> PongWait, quiet |-> 0]]
    /\ errAttempts = [c \in Conns |-> 0]

\* --------------------------------------------------- channel and queue helpers
\* close(c.Send) under sync.Once, for every client of S
closeClientSend(S) ==
    /\ closeOnce' = [c \in Conns |-> closeOnce[c] \/ c \in S]
    /\ closes' = [c \in Conns |-> IF c \in S /\ ~closeOnce[c] THEN closes[c] + 1 ELSE closes[c]]

SendClosed(c) == closes[c] > 0
SendFull(c) == Len(sendQ[c]) >= SendCap

\* a broadcastData that drops no client
BroadcastEvictedNone == {}

\* broadcastData, the section under Hub.mu: the clients whose non-blocking send fails
BroadcastEvicted == {c \in Clients : SendFull(c)}

\* broadcastData, the section under Hub.mu: the queues after the non-blocking sends
BroadcastQueues(m) ==
    [c \in Conns |-> IF c \in Clients /\ ~SendFull(c) THEN Append(sendQ[c], m) ELSE sendQ[c]]

\* a send on a closed channel panics, also inside a select with a default case
SendPanics(S) == \E c \in S : SendClosed(c)

\* a broadcastData whose sends wait for room in the queue
broadcastDataBlocking(m) ==
    /\ \A c \in Clients : ~SendFull(c)
    /\ sendQ' = BroadcastQueues(m)
    /\ Clients' = Clients
    /\ crashed' = (crashed \/ SendPanics(Clients))

\* a broadcastData that closes the queues it found full and leaves their clients in
\* the live set
broadcastDataKeepsFull(m) ==
    /\ sendQ' = BroadcastQueues(m)
    /\ Clients' = Clients
    /\ crashed' = (crashed \/ SendPanics(Clients))

broadcastData(m) ==
    /\ sendQ' = BroadcastQueues(m)
    /\ Clients' = Clients \ BroadcastEvicted
    /\ crashed' = (crashed \/ SendPanics(Clients))


HubIdle == [pc |-> "idle", client |-> 0, msg |-> NoMsg, toRemove |-> {}, branch |-> "none"]

\* a broadcastData that returns without closing the queues of the clients it removed
HubAfterBroadcastNoClose == HubIdle

\* the hub loop after broadcastData's locked section: the closes happen outside the lock
HubAfterBroadcast ==
    IF BroadcastEvicted = {} THEN HubIdle
    ELSE [pc |-> "closing", client |-> 0, msg |-> NoMsg, toRemove |-> BroadcastEvicted,
          branch |-> "none"]

SetPc(f, i, p) == [f EXCEPT ![i].pc = p]
RdIdle == [pc |-> "read", msg |-> NoMsg, toRemove |-> {}]

\* ------------------------------------------------------------- serveWs (1)
\* serveWs up to the blocking send on Hub.Register: the client is created and both
\* pumps are started before the registration is submitted
ServeWsStart(c) ==
    /\ ~crashed
    /\ srv[c].pc = "none"
    /\ srv' = SetPc(srv, c, "register")
    /\ rd' = [rd EXCEPT ![c] = RdIdle]
    /\ wr' = [wr EXCEPT ![c] = "run"]
    /\ UNCHANGED <<timerVars, hubVars, sendQ, closeOnce, closes, client, connClosed,
                   readDeadline, errAttempts>>

\* ------------------------------------------------------------ timer engine
\* readPump, case "timer_control": the action selects the TimerManager call
ReadTimerControl(c, action, seconds) ==
    /\ ~crashed
    /\ rd[c].pc = "read"
    /\ ~connClosed[c]
    /\ rd' = [rd EXCEPT ![c].pc = action,
                        ![c].msg = [type |-> "timer_control", action |-> action, seconds |-> seconds]]
    /\ UNCHANGED <<timerVars, hubVars, srv, wr, sendQ, closeOnce, closes, client, connClosed,
                   readDeadline, errAttempts>>

\* Start without the goroutineRunning guard, and without the TimeLeft guard
StartIsNoopNoGoroutineCheck == tmState.Running \/ tmState.TimeLeft <= 0
StartIsNoopNoTimeLeftCheck == tmState.Running \/ goroutineRunning

\* Start's early returns
StartIsNoop == tmState.Running \/ goroutineRunning \/ tmState.TimeLeft <= 0

\* Start, from Lock to the blocking broadcastState (the lock stays held)
TimerStart(c) ==
    /\ ~crashed
    /\ rd[c].pc = "start"
    /\ tmMu = NoProc
    /\ IF StartIsNoop
       THEN /\ rd' = [rd EXCEPT ![c] = RdIdle]
            /\ UNCHANGED <<tmState, ticker, tmMu, goroutineRunning>>
       ELSE /\ tmState' = [tmState EXCEPT !.Running = TRUE]
            /\ goroutineRunning' = TRUE
            /\ ticker' = "live"
            /\ tmMu' = Reader(c)
            /\ rd' = SetPc(rd, c, "start_bcast")
    /\ UNCHANGED <<stopChan, drv, crashed, hubVars, srv, wr, sendQ, closeOnce, closes, client,
                   connClosed, readDeadline, errAttempts>>

\* ticker.Stop(): every goroutine selecting on that ticker's channel gets no more ticks
StoppedDrivers == [d \in DriverIds |-> [drv[d] EXCEPT !.tickLive = FALSE]]

\* a Pause that also clears the time left
PauseLockedClears(p) ==
    /\ tmState' = [tmState EXCEPT !.Running = FALSE, !.TimeLeft = 0]
    /\ ticker' = "nil"
    /\ stopChan' = 1
    /\ tmMu' = p

\* Pause with Running set, from Lock to the blocking broadcastState
PauseLocked(p) ==
    /\ tmState' = [tmState EXCEPT !.Running = FALSE]
    /\ ticker' = "nil"
    /\ stopChan' = 1
    /\ tmMu' = p

\* Pause called by a reader
TimerPause(c) ==
    /\ ~crashed
    /\ rd[c].pc = "pause"
    /\ tmMu = NoProc
    /\ IF tmState.Running
       THEN /\ PauseLocked(Reader(c))
            /\ drv' = StoppedDrivers
            /\ rd' = SetPc(rd, c, "pause_bcast")
       ELSE /\ rd' = [rd EXCEPT ![c] = RdIdle]
            /\ UNCHANGED <<tmState, ticker, stopChan, tmMu, drv>>
    /\ UNCHANGED <<goroutineRunning, crashed, hubVars, srv, wr, sendQ, closeOnce, closes, client,
                   connClosed, readDeadline, errAttempts>>

\* Reset, first part: the call of Pause, which takes and releases the lock itself
TimerResetPause(c) ==
    /\ ~crashed
    /\ rd[c].pc = "reset"
    /\ tmMu = NoProc
    /\ IF tmState.Running
       THEN /\ PauseLocked(Reader(c))
            /\ drv' = StoppedDrivers
            /\ rd' = SetPc(rd, c, "reset_pause_bcast")
       ELSE /\ rd' = SetPc(rd, c, "reset_lock")
            /\ UNCHANGED <<tmState, ticker, stopChan, tmMu, drv>>
    /\ UNCHANGED <<goroutineRunning, crashed, hubVars, srv, wr, sendQ, closeOnce, closes, client,
                   connClosed, readDeadline, errAttempts>>

\* Reset, second part: Lock, the two assignments, up to the blocking broadcastState
TimerResetSet(c) ==
    /\ ~crashed
    /\ rd[c].pc = "reset_lock"
    /\ tmMu = NoProc
    /\ tmState' = [tmState EXCEPT !.TotalTime = rd[c].msg.seconds, !.TimeLeft = rd[c].msg.seconds]
    /\ tmMu' = Reader(c)
    /\ rd' = SetPc(rd, c, "reset_bcast")
    /\ UNCHANGED <<ticker, stopChan, goroutineRunning, drv, crashed, hubVars, srv, wr, sendQ,
                   closeOnce, closes, client, connClosed, readDeadline, errAttempts>>

\* `go func()` of Start: a new driver goroutine, about to evaluate its select
Spawned ==
    IF \E d \in DriverIds : drv[d].pc = "none"
    THEN [drv EXCEPT ![CHOOSE d \in DriverIds : drv[d].pc = "none"] =
                         [pc |-> "eval", tickLive |-> FALSE]]
    ELSE drv

TimerBcastPcs == {"start_bcast", "pause_bcast", "reset_pause_bcast", "reset_bcast"}

\* Hub.Run, case Broadcast, taking the timer_update a reader's timer call is sending
\* (broadcastState under TimerManager.mu); the call then returns and unlocks
HubBroadcastTimer(c) ==
    /\ ~crashed
    /\ hub.pc = "idle"
    /\ rd[c].pc \in TimerBcastPcs
    /\ broadcastData(TimerUpdate(tmState))
    /\ hub' = HubAfterBroadcast
    /\ tmMu' = NoProc
    /\ drv' = IF rd[c].pc = "start_bcast" THEN Spawned ELSE drv
    /\ rd' = IF rd[c].pc = "reset_pause_bcast" THEN SetPc(rd, c, "reset_lock")
             ELSE [rd EXCEPT ![c] = RdIdle]
    /\ UNCHANGED <<tmState, ticker, stopChan, goroutineRunning, ActiveResult, MaxClients, SendTo,
                   srv, wr, closeOnce, closes, client, connClosed, readDeadline, errAttempts>>

\* the driver evaluates the operands of its select: tm.ticker.C dereferences tm.ticker
DriverEval(d) ==
    /\ ~crashed
    /\ drv[d].pc = "eval"
    /\ drv' = IF ticker = "nil" THEN [drv EXCEPT ![d].pc = "panic"]
              ELSE [drv EXCEPT ![d] = [pc |-> "select", tickLive |-> TRUE]]
    /\ UNCHANGED <<tmState, ticker, stopChan, tmMu, goroutineRunning, crashed, hubVars, connVars>>

\* select, case <-tm.ticker.C
DriverTick(d) ==
    /\ ~crashed
    /\ drv[d].pc = "select"
    /\ drv[d].tickLive
    /\ drv' = [drv EXCEPT ![d].pc = "tick"]
    /\ UNCHANGED <<tmState, ticker, stopChan, tmMu, goroutineRunning, crashed, hubVars, connVars>>

\* select, case <-tm.stopChan: return
DriverStop(d) ==
    /\ ~crashed
    /\ drv[d].pc = "select"
    /\ stopChan > 0
    /\ stopChan' = stopChan - 1
    /\ drv' = [drv EXCEPT ![d].pc = "defer"]
    /\ UNCHANGED <<tmState, ticker, tmMu, goroutineRunning, crashed, hubVars, connVars>>

\* the tick handler: Lock, then decrement and broadcastState, or Unlock and call Pause
DriverTickLocked(d) ==
    /\ ~crashed
    /\ drv[d].pc = "tick"
    /\ tmMu = NoProc
    /\ IF tmState.TimeLeft > 0
       THEN /\ tmState' = [tmState EXCEPT !.TimeLeft = tmState.TimeLeft - 1]
            /\ tmMu' = Driver(d)
            /\ drv' = [drv EXCEPT ![d].pc = "tick_bcast"]
       ELSE /\ drv' = [drv EXCEPT ![d].pc = "pause"]
            /\ UNCHANGED <<tmState, tmMu>>
    /\ UNCHANGED <<ticker, stopChan, goroutineRunning, crashed, hubVars, connVars>>

\* Pause called by the driver when a tick finds TimeLeft <= 0; the driver then returns
DriverPause(d) ==
    /\ ~crashed
    /\ drv[d].pc = "pause"
    /\ tmMu = NoProc
    /\ IF tmState.Running
       THEN /\ PauseLocked(Driver(d))
            /\ drv' = [StoppedDrivers EXCEPT ![d].pc = "pause_bcast"]
       ELSE /\ drv' = [drv EXCEPT ![d].pc = "defer"]
            /\ UNCHANGED <<tmState, ticker, stopChan, tmMu>>
    /\ UNCHANGED <<goroutineRunning, crashed, hubVars, connVars>>

\* Hub.Run, case Broadcast, taking the timer_update the driver is sending
HubBroadcastDriver(d) ==
    /\ ~crashed
    /\ hub.pc = "idle"
    /\ drv[d].pc \in {"tick_bcast", "pause_bcast"}
    /\ broadcastData(TimerUpdate(tmState))
    /\ hub' = HubAfterBroadcast
    /\ tmMu' = NoProc
    /\ drv' = [drv EXCEPT ![d].pc = IF drv[d].pc = "tick_bcast" THEN "eval" ELSE "defer"]
    /\ UNCHANGED <<tmState, ticker, stopChan, goroutineRunning, ActiveResult, MaxClients, SendTo,
                   connVars>>

\* the driver's deferred function on return
DriverDefer(d) ==
    /\ ~crashed
    /\ drv[d].pc = "defer"
    /\ tmMu = NoProc
    /\ goroutineRunning' = FALSE
    /\ drv' = [drv EXCEPT ![d] = [pc |-> "none", tickLive |-> FALSE]]
    /\ UNCHANGED <<tmState, ticker, stopChan, tmMu, crashed, hubVars, connVars>>

\* nil dereference in the driver: the deferred function runs, then the runtime ends
\* the process (nothing recovers a panic of this goroutine)
DriverPanic(d) ==
    /\ ~crashed
    /\ drv[d].pc = "panic"
    /\ tmMu = NoProc
    /\ goroutineRunning' = FALSE
    /\ crashed' = TRUE
    /\ drv' = [drv EXCEPT ![d] = [pc |-> "dead", tickLive |-> FALSE]]
    /\ UNCHANGED <<tmState, ticker, stopChan, tmMu, hubVars, connVars>>

TimerActions ==
    \/ \E c \in Conns : TimerStart(c) \/ TimerPause(c) \/ TimerResetPause(c) \/ TimerResetSet(c)
    \/ \E c \in Conns : HubBroadcastTimer(c)
    \/ \E d \in DriverIds : DriverEval(d) \/ DriverTick(d) \/ DriverStop(d) \/ DriverTickLocked(d)
    \/ \E d \in DriverIds : DriverPause(d) \/ HubBroadcastDriver(d) \/ DriverDefer(d) \/ DriverPanic(d)

\* the timer engine driven by readers that send timer_control messages
TimerNext ==
    \/ \E c \in Conns : ServeWsStart(c)
    \/ \E c \in Conns, a \in {"start", "pause"} : ReadTimerControl(c, a, 0)
    \/ \E c \in Conns, s \in Seconds : ReadTimerControl(c, "reset", s)
    \/ TimerActions

\* no connection is ever registered here, so the registration limit plays no part
TimerInit == Init /\ MaxClients = 0

TimerSpec == TimerInit /\ [][TimerNext]_vars

\* payload.Seconds is any integer the client puts on the wire
WireTimerNext ==
    \/ TimerNext
    \/ \E c \in Conns : ReadTimerControl(c, "reset", 0 - 1)

WireTimerSpec == TimerInit /\ [][WireTimerNext]_vars

\* every goroutine that can take a step eventually takes it (Go's scheduler and
\* sync.Mutex starve no goroutine); what clients send is not forced
DriverStep(d) ==
    \/ DriverEval(d) \/ DriverTick(d) \/ DriverStop(d) \/ DriverTickLocked(d)
    \/ DriverPause(d) \/ HubBroadcastDriver(d) \/ DriverDefer(d) \/ DriverPanic(d)

ReaderTimerStep(c) ==
    \/ TimerStart(c) \/ TimerPause(c) \/ TimerResetPause(c) \/ TimerResetSet(c)
    \/ HubBroadcastTimer(c)

FairTimerSpec ==
    /\ TimerSpec
    /\ \A d \in DriverIds : SF_vars(DriverStep(d))
    /\ \A c \in Conns : SF_vars(ReaderTimerStep(c))

\* ------------------------------------------------------------- the roster
Addr(c) == c

\* broadcastClientList, the section under Hub.mu: the ClientInfo of one client
ClientInfo(c) ==
    [id |-> client[c].ID,
     name |-> IF client[c].Name = "" THEN "Unknown" ELSE client[c].Name,
     addr |-> Addr(c),
     display_mode |-> IF client[c].DisplayMode = "" THEN "show_result" ELSE client[c].DisplayMode]

\* strings.ToLower, and the order of the lower-cased names that occur
ToLower(n) == IF n = "Alice" THEN "alice" ELSE IF n = "Unknown" THEN "unknown" ELSE n
LowerRank(n) == CASE n = "alice" -> 1 [] n = "bob" -> 2 [] n = "unknown" -> 3 [] OTHER -> 0
StrLess(a, b) == LowerRank(a) < LowerRank(b)

\* the comparator handed to sort.Slice
RosterLess(a, b) ==
    IF a.name # b.name THEN StrLess(ToLower(a.name), ToLower(b.name)) ELSE a.addr < b.addr

\* sort.Slice on fewer than 12 elements is an insertion sort
RECURSIVE Insert(_, _)
Insert(sorted, e) ==
    IF sorted = <<>> THEN <<e>>
    ELSE IF RosterLess(e, sorted[Len(sorted)])
         THEN Append(Insert(SubSeq(sorted, 1, Len(sorted) - 1), e), sorted[Len(sorted)])
         ELSE Append(sorted, e)

RECURSIVE InsertionSort(_)
InsertionSort(list) ==
    IF list = <<>> THEN <<>>
    ELSE Insert(InsertionSort(SubSeq(list, 1, Len(list) - 1)), list[Len(list)])

\* the orders in which `for client := range h.Clients` may visit a set
RECURSIVE MapOrders(_)
MapOrders(S) ==
    IF S = {} THEN {<<>>}
    ELSE UNION {{<<c>> \o rest : rest \in MapOrders(S \ {c})} : c \in S}

InfoList(order) == [i \in 1..Len(order) |-> ClientInfo(order[i])]

\* a broadcastClientList that publishes an empty roster
ClientListsEmpty == {ClientListMsg(<<>>)}

\* the client_list messages broadcastClientList may build from the live set
ClientLists == {ClientListMsg(InsertionSort(InfoList(o))) : o \in MapOrders(Clients)}

\* --------------------------------------------------------------- Hub.Run
\* a limit check that lets one connection too many in
LimitReachedOffByOne == MaxClients > 0 /\ Cardinality(Clients) > MaxClients

\* case Register: the limit check under Hub.mu
LimitReached == MaxClients > 0 /\ Cardinality(Clients) >= MaxClients

\* case client := <-h.Register, to the end of the locked section
HubRegister(c) ==
    /\ ~crashed
    /\ hub.pc = "idle"
    /\ srv[c].pc = "register"
    /\ srv' = SetPc(srv, c, "timer")
    /\ IF LimitReached
       THEN /\ hub' = [HubIdle EXCEPT !.pc = "reject_send", !.client = c, !.branch = "register"]
            /\ UNCHANGED Clients
       ELSE /\ Clients' = Clients \cup {c}
            /\ hub' = [HubIdle EXCEPT !.pc = "roster_snap", !.client = c, !.branch = "register"]
    /\ UNCHANGED <<timerVars, ActiveResult, MaxClients, SendTo, rd, wr, sendQ, closeOnce, closes,
                   client, connClosed, readDeadline, errAttempts>>

\* a non-blocking send of m on c.Send: the queue afterwards
TrySend(c, m) == IF SendFull(c) THEN sendQ[c] ELSE Append(sendQ[c], m)

\* case Register, rejected: the non-blocking send of the `error` message
HubRejectSend ==
    /\ ~crashed
    /\ hub.pc = "reject_send"
    /\ sendQ' = [sendQ EXCEPT ![hub.client] = TrySend(hub.client, ErrorMsg)]
    /\ crashed' = SendPanics({hub.client})
    /\ errAttempts' = [errAttempts EXCEPT ![hub.client] = @ + 1]
    /\ hub' = [hub EXCEPT !.pc = "reject_close"]
    /\ UNCHANGED <<tmState, ticker, stopChan, tmMu, goroutineRunning, drv, Clients, ActiveResult,
                   MaxClients, SendTo, srv, rd, wr, closeOnce, closes, client, connClosed, readDeadline>>

\* case Register, rejected: client.closeClientSend(); continue
HubRejectClose ==
    /\ ~crashed
    /\ hub.pc = "reject_close"
    /\ closeClientSend({hub.client})
    /\ hub' = HubIdle
    /\ UNCHANGED <<timerVars, Clients, ActiveResult, MaxClients, SendTo, srv, rd, wr, sendQ, client,
                   connClosed, readDeadline, errAttempts>>

\* an Unregister case without the membership check
UnregisterRemovesAlways(c) == {c}

\* case Unregister, the locked section: what happens to the live set
UnregisterRemoves(c) == IF c \in Clients THEN {c} ELSE {}

\* case client := <-h.Unregister; the reader's deferred function then closes the socket
HubUnregister(c) ==
    /\ ~crashed
    /\ hub.pc = "idle"
    /\ rd[c].pc = "unregister"
    /\ Clients' = Clients \ UnregisterRemoves(c)
    /\ closeClientSend(UnregisterRemoves(c))
    /\ hub' = [HubIdle EXCEPT !.pc = "roster_snap", !.client = c, !.branch = "unregister"]
    /\ rd' = [rd EXCEPT ![c] = [RdIdle EXCEPT !.pc = "done"]]
    /\ connClosed' = [connClosed EXCEPT ![c] = TRUE]
    /\ readDeadline' = readDeadline
    /\ UNCHANGED <<timerVars, ActiveResult, MaxClients, SendTo, srv, wr, sendQ, client, errAttempts>>

\* case client := <-h.Handshake
HubHandshake(c) ==
    /\ ~crashed
    /\ hub.pc = "idle"
    /\ rd[c].pc = "handshake"
    /\ hub' = [HubIdle EXCEPT !.pc = "roster_snap", !.client = c, !.branch = "handshake"]
    /\ rd' = [rd EXCEPT ![c] = RdIdle]
    /\ UNCHANGED <<timerVars, Clients, ActiveResult, MaxClients, SendTo, srv, wr, sendQ, closeOnce,
                   closes, client, connClosed, readDeadline, errAttempts>>

\* a SendTo case that drops the message of a full queue and keeps the client
SendToEvictedNone(job) == {}

\* case SendTo, the locked section: the client the job evicts, if any
SendToEvicted(job) == IF job.Client \in Clients /\ SendFull(job.Client) THEN {job.Client} ELSE {}

\* case job := <-h.SendTo, to the end of the locked section
HubSendTo ==
    /\ ~crashed
    /\ hub.pc = "idle"
    /\ SendTo # <<>>
    /\ LET job == Head(SendTo) IN
        /\ SendTo' = Tail(SendTo)
        /\ sendQ' = IF job.Client \in Clients
                    THEN [sendQ EXCEPT ![job.Client] = TrySend(job.Client, job.Msg)]
                    ELSE sendQ
        /\ crashed' = SendPanics({job.Client} \cap Clients)
        /\ Clients' = Clients \ SendToEvicted(job)
        /\ hub' = IF SendToEvicted(job) = {} THEN HubIdle
                  ELSE [HubIdle EXCEPT !.pc = "closing", !.toRemove = SendToEvicted(job)]
    /\ UNCHANGED <<tmState, ticker, stopChan, tmMu, goroutineRunning, drv, ActiveResult, MaxClients,
                   srv, rd, wr, closeOnce, closes, client, connClosed, readDeadline, errAttempts>>

\* closeClientSend of the evicted clients, after Hub.mu is released (case SendTo and
\* broadcastData)
HubClose ==
    /\ ~crashed
    /\ hub.pc = "closing"
    /\ closeClientSend(hub.toRemove)
    /\ hub' = HubIdle
    /\ UNCHANGED <<timerVars, Clients, ActiveResult, MaxClients, SendTo, srv, rd, wr, sendQ, client,
                   connClosed, readDeadline, errAttempts>>

\* broadcastClientList called by the hub loop: the snapshot under Hub.mu, sort and marshal
HubRosterSnap ==
    /\ ~crashed
    /\ hub.pc = "roster_snap"
    /\ \E m \in ClientLists : hub' = [hub EXCEPT !.pc = "roster_bcast", !.msg = m]
    /\ UNCHANGED <<timerVars, Clients, ActiveResult, MaxClients, SendTo, connVars>>

\* broadcastClientList called by the hub loop: broadcastData(data)
HubRosterBroadcast ==
    /\ ~crashed
    /\ hub.pc = "roster_bcast"
    /\ broadcastData(hub.msg)
    /\ hub' = HubAfterBroadcast
    /\ UNCHANGED <<tmState, ticker, stopChan, tmMu, goroutineRunning, drv, ActiveResult, MaxClients,
                   SendTo, srv, rd, wr, closeOnce, closes, client, connClosed,
                   readDeadline, errAttempts>>

\* case message := <-h.Broadcast, taking the set_result envelope a reader is sending
HubBroadcastResult(c) ==
    /\ ~crashed
    /\ hub.pc = "idle"
    /\ rd[c].pc = "set_result"
    /\ broadcastData(rd[c].msg)
    /\ hub' = HubAfterBroadcast
    /\ rd' = [rd EXCEPT ![c] = RdIdle]
    /\ UNCHANGED <<tmState, ticker, stopChan, tmMu, goroutineRunning, drv, ActiveResult, MaxClients,
                   SendTo, srv, wr, closeOnce, closes, client, connClosed,
                   readDeadline, errAttempts>>

\* -------------------------------------------------------------- readPump
\* case "handshake": the two assignments, then the blocking send on Hub.Handshake
ReadHandshake(c, name, id) ==
    /\ ~crashed
    /\ rd[c].pc = "read"
    /\ ~connClosed[c]
    /\ client' = [client EXCEPT ![c].Name = name, ![c].ID = id]
    /\ rd' = SetPc(rd, c, "handshake")
    /\ UNCHANGED <<timerVars, hubVars, srv, wr, sendQ, closeOnce, closes, connClosed,
                   readDeadline, errAttempts>>

\* case "set_result": ActiveResult is set under Hub.mu, then BroadcastJSON(msg) blocks
ReadSetResult(c, file) ==
    /\ ~crashed
    /\ rd[c].pc = "read"
    /\ ~connClosed[c]
    /\ ActiveResult' = file
    /\ rd' = [rd EXCEPT ![c].pc = "set_result", ![c].msg = SetResultMsg(file)]
    /\ UNCHANGED <<timerVars, Clients, MaxClients, SendTo, hub, srv, wr, sendQ, closeOnce, closes,
                   client, connClosed, readDeadline, errAttempts>>

\* a target resolution that also finds connections that have left the live set
TargetsEverSeen(target) == {t \in Conns : Addr(t) = target /\ srv[t].pc # "none"}

\* case "client_command", the loop under Hub.mu: the live clients at the target address
Targets(target) == {t \in Clients : Addr(t) = target}

\* a reader that treats a rename like any other command
CommandMsgNoRename(command, value) == DisplayModeMsg(command)

\* a reader that forwards every command as show_result
CommandMsgFixed(command, value) == DisplayModeMsg("show_result")

\* case "client_command": what is then sent to the target
CommandMsg(command, value) ==
    IF command = "rename" THEN UpdateConfigMsg(value) ELSE DisplayModeMsg(command)

\* case "client_command": the loop under Hub.mu and the test of targetClient after it;
\* without a target the reader is back at ReadMessage
CommandLocked(c, target, command, value) ==
    IF Targets(target) = {}
    THEN rd' = [rd EXCEPT ![c] = RdIdle] /\ UNCHANGED client
    ELSE LET t == CHOOSE t \in Targets(target) : TRUE IN
         /\ client' = IF command # "rename"
                      THEN [client EXCEPT ![t].DisplayMode = command] ELSE client
         /\ rd' = [rd EXCEPT ![c].pc = "sendto",
                             ![c].msg = [Client |-> t, Msg |-> CommandMsg(command, value)]]

\* case "client_command", to the end of the locked section
ReadClientCommand(c, target, command, value) ==
    /\ ~crashed
    /\ rd[c].pc = "read"
    /\ ~connClosed[c]
    /\ CommandLocked(c, target, command, value)
    /\ UNCHANGED <<timerVars, hubVars, srv, wr, sendQ, closeOnce, closes, connClosed,
                   readDeadline, errAttempts>>

\* c.Hub.SendTo <- job, a buffered channel; a display_mode job is followed by
\* broadcastClientList
ReaderSendTo(c) ==
    /\ ~crashed
    /\ rd[c].pc = "sendto"
    /\ Len(SendTo) < SendToCap
    /\ SendTo' = Append(SendTo, rd[c].msg)
    /\ rd' = IF rd[c].msg.Msg.type = "display_mode"
             THEN [rd EXCEPT ![c].pc = "roster_snap"]
             ELSE [rd EXCEPT ![c] = RdIdle]
    /\ UNCHANGED <<timerVars, Clients, ActiveResult, MaxClients, hub, srv, wr, sendQ, closeOnce,
                   closes, client, connClosed, readDeadline, errAttempts>>

\* broadcastClientList called by a reader: the snapshot under Hub.mu, sort and marshal
ReaderRosterSnap(c) ==
    /\ ~crashed
    /\ rd[c].pc = "roster_snap"
    /\ \E m \in ClientLists : rd' = [rd EXCEPT ![c].pc = "roster_bcast", ![c].msg = m]
    /\ UNCHANGED <<timerVars, hubVars, srv, wr, sendQ, closeOnce, closes, client, connClosed,
                   readDeadline, errAttempts>>

\* broadcastClientList called by a reader: broadcastData(data), the locked section
ReaderRosterBroadcast(c) ==
    /\ ~crashed
    /\ rd[c].pc = "roster_bcast"
    /\ broadcastData(rd[c].msg)
    /\ rd' = IF BroadcastEvicted = {} THEN [rd EXCEPT ![c] = RdIdle]
             ELSE [rd EXCEPT ![c] = [pc |-> "closing", msg |-> NoMsg, toRemove |-> BroadcastEvicted]]
    /\ UNCHANGED <<tmState, ticker, stopChan, tmMu, goroutineRunning, drv, ActiveResult, MaxClients,
                   SendTo, hub, srv, wr, closeOnce, closes, client, connClosed,
                   readDeadline, errAttempts>>

\* broadcastData called by a reader: the closes after Hub.mu is released
ReaderClose(c) ==
    /\ ~crashed
    /\ rd[c].pc = "closing"
    /\ closeClientSend(rd[c].toRemove)
    /\ rd' = [rd EXCEPT ![c] = RdIdle]
    /\ UNCHANGED <<timerVars, hubVars, srv, wr, sendQ, client, connClosed,
                   readDeadline, errAttempts>>

\* ReadMessage returns an error: break, and the deferred function sends on Unregister
ReadError(c) ==
    /\ ~crashed
    /\ rd[c].pc = "read"
    /\ rd' = SetPc(rd, c, "unregister")
    /\ UNCHANGED <<timerVars, hubVars, srv, wr, sendQ, closeOnce, closes, client, connClosed,
                   readDeadline, errAttempts>>

\* ------------------------------------------------------------- writePump
\* case message, ok := <-c.Send with a message: it is written, or the write fails on a
\* closed socket and the pump returns
WriterWrite(c) ==
    /\ ~crashed
    /\ wr[c] = "run"
    /\ sendQ[c] # <<>>
    /\ sendQ' = [sendQ EXCEPT ![c] = Tail(sendQ[c])]
    /\ wr' = IF connClosed[c] THEN [wr EXCEPT ![c] = "done"] ELSE wr
    /\ UNCHANGED <<timerVars, hubVars, srv, rd, closeOnce, closes, client, connClosed,
                   readDeadline, errAttempts>>

\* case message, ok := <-c.Send with !ok: close frame, return, Conn.Close()
WriterClosed(c) ==
    /\ ~crashed
    /\ wr[c] = "run"
    /\ sendQ[c] = <<>>
    /\ SendClosed(c)
    /\ wr' = [wr EXCEPT ![c] = "done"]
    /\ connClosed' = [connClosed EXCEPT ![c] = TRUE]
    /\ readDeadline' = readDeadline
    /\ UNCHANGED <<timerVars, hubVars, srv, rd, sendQ, closeOnce, closes, client, errAttempts>>

\* ------------------------------------------------------------- serveWs (2)
\* the timer snapshot is marshalled under TimerManager.mu
ServeWsTimer(c) ==
    /\ ~crashed
    /\ srv[c].pc = "timer"
    /\ tmMu = NoProc
    /\ srv' = [srv EXCEPT ![c] = [pc |-> "send_timer", msg |-> TimerUpdate(tmState)]]
    /\ UNCHANGED <<timerVars, hubVars, rd, wr, sendQ, closeOnce, closes, client, connClosed,
                   readDeadline, errAttempts>>

\* a serveWs that goes from the timer state straight to the display mode
AfterSendSkipsResult(pc) == IF pc = "send_mode" THEN "done" ELSE "mode"

\* where serveWs goes after each of its sends
AfterSend(pc) == CASE pc = "send_timer" -> "result" [] pc = "send_result" -> "mode"
                   [] pc = "send_mode" -> "done"

\* client.Send <- msg, a blocking send: it panics if the channel is closed (net/http
\* recovers the panic of a handler goroutine), and waits while the channel is full
ServeWsSend(c) ==
    /\ ~crashed
    /\ srv[c].pc \in {"send_timer", "send_result", "send_mode"}
    /\ IF SendClosed(c)
       THEN /\ srv' = [srv EXCEPT ![c] = [pc |-> "panicked", msg |-> NoMsg]]
            /\ UNCHANGED sendQ
       ELSE /\ ~SendFull(c)
            /\ sendQ' = [sendQ EXCEPT ![c] = Append(sendQ[c], srv[c].msg)]
            /\ srv' = [srv EXCEPT ![c] = [pc |-> AfterSend(srv[c].pc), msg |-> NoMsg]]
    /\ UNCHANGED <<timerVars, hubVars, rd, wr, closeOnce, closes, client, connClosed,
                   readDeadline, errAttempts>>

\* the active result is read under Hub.mu
ServeWsResult(c) ==
    /\ ~crashed
    /\ srv[c].pc = "result"
    /\ srv' = IF ActiveResult # ""
              THEN [srv EXCEPT ![c] = [pc |-> "send_result", msg |-> SetResultMsg(ActiveResult)]]
              ELSE SetPc(srv, c, "mode")
    /\ UNCHANGED <<timerVars, hubVars, rd, wr, sendQ, closeOnce, closes, client, connClosed,
                   readDeadline, errAttempts>>

\* the initial display mode, read from the client without a lock
ServeWsMode(c) ==
    /\ ~crashed
    /\ srv[c].pc = "mode"
    /\ srv' = [srv EXCEPT ![c] = [pc |-> "send_mode",
                                  msg |-> DisplayModeMsg(ClientInfo(c).display_mode)]]
    /\ UNCHANGED <<timerVars, hubVars, rd, wr, sendQ, closeOnce, closes, client, connClosed,
                   readDeadline, errAttempts>>

\* ------------------------------------------------------ the registry alone
\* the cases of Hub.Run's select that registration and departure go through
HubLoop ==
    \/ \E c \in Conns : HubRegister(c)
    \/ HubRejectSend
    \/ HubRejectClose
    \/ \E c \in Conns : HubUnregister(c)
    \/ HubClose
    \/ HubRosterSnap
    \/ HubRosterBroadcast

\* the steps of a connection's three goroutines after serveWs has created them
Workers ==
    \/ \E c \in Conns : ServeWsTimer(c)
    \/ \E c \in Conns : ServeWsSend(c)
    \/ \E c \in Conns : ServeWsResult(c)
    \/ \E c \in Conns : ServeWsMode(c)
    \/ \E c \in Conns : WriterWrite(c)
    \/ \E c \in Conns : WriterClosed(c)
    \/ \E c \in Conns : ReadError(c)

\* connections arrive concurrently, send set_result messages and drop; the timer stays
\* idle
Next ==
    \/ HubLoop
    \/ Workers
    \/ \E c \in Conns : ServeWsStart(c)
    \/ \E c \in Conns, f \in Files : ReadSetResult(c, f)
    \/ \E c \in Conns : HubBroadcastResult(c)

Spec == Init /\ [][Next]_vars

\* ------------------------------------------------- the registry with routing
\* the connection that issues commands (the admin page): the first to dial
Admin == CHOOSE c \in Conns : \A o \in Conns : c <= o

\* the handlers of earlier connections have returned (or died) before the next one dials
ServeWsStartInTurn(c) ==
    /\ \A o \in Conns : o < c => srv[o].pc \in {"done", "panicked"}
    /\ ServeWsStart(c)

\* a client_command sent by a reader: the job, and the roster broadcast after it
Routing ==
    \/ HubSendTo
    \/ \E c \in Conns : ReaderSendTo(c)
    \/ \E c \in Conns : ReaderRosterSnap(c)
    \/ \E c \in Conns : ReaderRosterBroadcast(c)
    \/ \E c \in Conns : ReaderClose(c)

\* connections arrive one after the other and drop at any time; the admin connection
\* sends show_timer commands for any address; the timer stays idle
RouteNext ==
    \/ HubLoop
    \/ Workers
    \/ Routing
    \/ \E c \in Conns : ServeWsStartInTurn(c)
    \/ \E t \in Conns : ReadClientCommand(Admin, t, "show_timer", "")

RouteSpec == Init /\ [][RouteNext]_vars

\* ------------------------------------------------- a session with an admin
\* the steps of registration, connection setup and delivery when nobody is refused
SetupCore ==
    \/ \E c \in Conns : ServeWsStartInTurn(c)
    \/ \E c \in Conns : HubRegister(c)
    \/ HubClose
    \/ HubRosterSnap
    \/ HubRosterBroadcast
    \/ \E c \in Conns : ServeWsTimer(c)
    \/ \E c \in Conns : ServeWsSend(c)
    \/ \E c \in Conns : ServeWsResult(c)
    \/ \E c \in Conns : ServeWsMode(c)
    \/ \E c \in Conns : WriterWrite(c)
    \/ \E c \in Conns : WriterClosed(c)

\* connections arrive one after the other and none is refused or drops; the admin
\* connection sends set_result messages and display commands for any address; slow
\* consumers are evicted; the timer stays idle
SessionNext ==
    \/ SetupCore
    \/ Routing
    \/ \E t \in Conns, m \in Modes : ReadClientCommand(Admin, t, m, "")
    \/ \E f \in Files : ReadSetResult(Admin, f)
    \/ \E c \in Conns : HubBroadcastResult(c)

SessionSpec == TimerInit /\ [][SessionNext]_vars

\* ------------------------------------------------ handshakes and the roster
\* the names that differ only in case
CaseNames == {n \in Names : ToLower(n) = "alice"}

\* connections arrive one after the other, are all accepted and stay; each may send
\* handshakes with names that differ only in case; slow consumers are evicted; the timer
\* stays idle
RosterNext ==
    \/ SetupCore
    \/ \E c \in Conns, n \in CaseNames, i \in IDs : ReadHandshake(c, n, i)
    \/ \E c \in Conns : HubHandshake(c)

RosterSpec == TimerInit /\ [][RosterNext]_vars

\* --------------------------------------------------------- registry claims
\* the connection was handed to the hub loop and is not (or no longer) in the live set
Departed(c) == srv[c].pc \notin {"none", "register"} /\ c \notin Clients

\* a goroutine has taken the connection out of the live set, or refused it, and has not
\* reached its closeClientSend call yet
ClosePending(c) ==
    \/ hub.pc \in {"reject_send", "reject_close"} /\ hub.client = c
    \/ hub.pc = "closing" /\ c \in hub.toRemove
    \/ \E r \in Conns : rd[r].pc = "closing" /\ c \in rd[r].toRemove

\* C1: whichever of rejection, unregister, targeted-send eviction and broadcast eviction
\* hit a connection, and in whatever order, close(Client.Send) runs exactly once for it:
\* never a second time (no closeClientSend call finds the queue already closed), never
\* while the connection is in the live set, and always once the goroutine that removed
\* or refused it has finished.
C1_ClosedExactlyOnce ==
    \A c \in Conns :
        /\ closes[c] <= 1
        /\ c \in Clients => closes[c] = 0
        /\ ClosePending(c) => closes[c] = 0
        /\ Departed(c) /\ ~ClosePending(c) => closes[c] = 1

\* a refused connection whose reader has unregistered it, next to a connection that was
\* evicted and whose unregister is still to come
C1_Witness ==
    \E c, d \in Conns :
        /\ errAttempts[c] = 1 /\ rd[c].pc = "done" /\ closes[c] = 1
        /\ errAttempts[d] = 0 /\ rd[d].pc = "unregister" /\ closes[d] = 1

\* the register request of c is taken by the hub loop in this step
RegisterTaken(c) == srv[c].pc = "register" /\ srv'[c].pc # "register"

\* C3: a register request that finds the live set at MaxClients (> 0) leaves the live set
\* as it is, is followed by exactly one non-blocking enqueue attempt of the `error`
\* message to that connection and by the close of its queue, and the live set never
\* holds more than MaxClients connections.
C3_RejectAtLimit ==
    /\ [](MaxClients > 0 => Cardinality(Clients) <= MaxClients)
    /\ [](\A c \in Conns :
            /\ errAttempts[c] <= 1
            /\ errAttempts[c] = 1 => c \notin Clients
            /\ errAttempts[c] = 1 /\ ~ClosePending(c) => closes[c] = 1
            /\ hub.pc = "reject_send" /\ hub.client = c => errAttempts[c] = 0 /\ closes[c] = 0)
    /\ [][\A c \in Conns :
            RegisterTaken(c) /\ MaxClients > 0 /\ Cardinality(Clients) >= MaxClients
                => Clients' = Clients /\ hub'.pc = "reject_send" /\ hub'.client = c]_vars

\* the live set is at its limit and a refused connection has had its one `error` attempt
\* and its close
C3_Witness ==
    \E c \in Conns :
        /\ MaxClients > 0 /\ Cardinality(Clients) = MaxClients
        /\ errAttempts[c] = 1 /\ closes[c] = 1 /\ hub.pc = "idle"

\* a call of broadcastData(m) passes its locked section in this step
BroadcastOf(m) ==
    \/ hub.pc = "roster_bcast" /\ hub'.pc # "roster_bcast" /\ m = hub.msg
    \/ \E r \in Conns : rd[r].pc = "roster_bcast" /\ rd'[r].pc # "roster_bcast" /\ m = rd[r].msg
    \/ \E r \in Conns : rd[r].pc = "set_result" /\ rd'[r].pc # "set_result" /\ m = rd[r].msg

BroadcastMsgs == {hub.msg} \cup {rd[r].msg : r \in Conns}

\* C4: in the one step of broadcast(m) under the lock, every live connection with room
\* gets m appended and stays live, every live connection whose queue is full leaves the
\* live set and gets nothing, and a connection outside the live set gets nothing.
C4_BroadcastDelivers ==
    [][\A m \in BroadcastMsgs : BroadcastOf(m) =>
        \A c \in Conns :
            /\ c \in Clients /\ Len(sendQ[c]) < SendCap
                  => sendQ'[c] = Append(sendQ[c], m) /\ c \in Clients'
            /\ c \in Clients /\ Len(sendQ[c]) >= SendCap
                  => sendQ'[c] = sendQ[c] /\ c \notin Clients'
            /\ c \notin Clients => sendQ'[c] = sendQ[c] /\ c \notin Clients']_vars

\* a reader's roster broadcast has just evicted a full connection and delivered the
\* roster to another one, which stays live
C4_Witness ==
    \E r \in Conns :
        /\ rd[r].pc = "closing" /\ rd[r].toRemove # {}
        /\ \E c \in Clients :
              sendQ[c] # <<>> /\ sendQ[c][Len(sendQ[c])].type = "client_list"

\* C5: no goroutine sends on a Client.Send that has been closed: serveWs never panics in
\* one of its three initial sends, and the hub's sends never hit a closed queue.
C5_NoSendOnClosed == ~crashed /\ \A c \in Conns : srv[c].pc # "panicked"

\* ------------------------------------------------------------ timer claims
LiveDrivers == {d \in DriverIds : drv[d].pc \notin {"none", "dead"}}

\* C2: in every timer state, Running implies TimeLeft > 0, so no timer_update with
\* running = true and timeLeft = 0 is published
C2_RunningImpliesTimeLeft == tmState.Running => tmState.TimeLeft > 0

\* C6: once the timer runs it eventually stops running: by a pause or reset, or, if none
\* is issued, by the countdown reaching zero
C6_CountdownEnds == tmState.Running ~> ~tmState.Running

StartSteps(c) == rd[c].pc = "start" /\ rd'[c].pc # "start"
TickDecrements(d) == drv[d].pc = "tick" /\ drv'[d].pc # "tick" /\ tmState' # tmState

StartEffect(c) ==
    /\ tmState' = [tmState EXCEPT !.Running = TRUE]
    /\ ticker' = "live"
    /\ rd'[c].pc = "start_bcast"
    /\ tmMu' = Reader(c)

StartNoEffect(c) ==
    /\ UNCHANGED <<tmState, ticker, stopChan, goroutineRunning, drv, tmMu>>
    /\ rd'[c].pc = "read"

StartPublished(c) == rd[c].pc = "start_bcast" /\ rd'[c].pc # "start_bcast"
DriverSpawned == \E d \in DriverIds : drv[d].pc = "none" /\ drv'[d].pc = "eval"
TickPublishes(d) == drv'[d].pc = "tick_bcast" /\ tmMu' = Driver(d)

\* C7 as stated: start() changes nothing and publishes nothing if Running or
\* TimeLeft <= 0, and in every other state sets Running, publishes at once and starts
\* the driver; every decrementing tick publishes
C7_StartAsStated ==
    [][/\ \A c \in Conns : StartSteps(c) =>
              IF tmState.Running \/ tmState.TimeLeft <= 0
              THEN StartNoEffect(c) ELSE StartEffect(c)
       /\ \A c \in Conns : StartPublished(c) => DriverSpawned
       /\ \A d \in DriverIds : TickDecrements(d) => TickPublishes(d)]_vars

\* C7 amended: start() is a no-op also while the goroutine of an earlier driver has not
\* yet returned (goroutineRunning); otherwise as stated
C7_StartAmended ==
    [][/\ \A c \in Conns : StartSteps(c) =>
              IF tmState.Running \/ goroutineRunning \/ tmState.TimeLeft <= 0
              THEN StartNoEffect(c) ELSE StartEffect(c)
       /\ \A c \in Conns : StartPublished(c) => DriverSpawned
       /\ \A d \in DriverIds : TickDecrements(d) => TickPublishes(d)]_vars

C7_Witness ==
    \E c \in Conns : rd[c].pc = "start_bcast" /\ tmState.Running /\ tmState.TimeLeft > 0

\* C8: when reset(n) has made its assignments and publishes, the state it publishes is
\* Running = false, TimeLeft = TotalTime = n
C8_ResetYields ==
    \A c \in Conns : rd[c].pc = "reset_bcast" =>
        tmState = [Running |-> FALSE, TimeLeft |-> rd[c].msg.seconds,
                   TotalTime |-> rd[c].msg.seconds]

\* C9: once a pause has taken effect (Running is false), no tick decrements TimeLeft or
\* publishes, and the driver does not go back to waiting for ticks
C9_NoTickAfterPause ==
    [][~tmState.Running =>
          \A d \in DriverIds :
              /\ ~TickDecrements(d)
              /\ ~(drv[d].pc = "tick" /\ drv'[d].pc = "tick_bcast")]_vars

\* C10: at most one driver goroutine exists at any time, and no tick decrements
\* TimeLeft below zero
C10_OneDriverNoUnderflow ==
    /\ [](Cardinality(LiveDrivers) <= 1)
    /\ [][\A d \in DriverIds : TickDecrements(d) =>
              tmState'.TimeLeft = tmState.TimeLeft - 1 /\ tmState'.TimeLeft >= 0]_vars

C10_Witness ==
    /\ \E d \in DriverIds : drv[d].pc = "pause" /\ tmState.TimeLeft <= 0
    /\ \E c \in Conns : rd[c].pc = "start"

\* C11: while the countdown runs, every tick publishes a timeLeft one below the last
\* published one, with running = true as long as the published timeLeft is above zero
\* and running = false in the update in which timeLeft reaches 0.
C11_CountdownUpdates ==
    [][\A d \in DriverIds : TickDecrements(d) /\ tmState.Running =>
          /\ TickPublishes(d)
          /\ tmState'.TimeLeft = tmState.TimeLeft - 1
          /\ tmState'.Running = (tmState'.TimeLeft > 0)]_vars

\* the tick finds TimeLeft at zero: the driver is between its Unlock and its Pause, or
\* in the broadcastState of that Pause
AtZero(d) == drv[d].pc \in {"pause", "pause_bcast"}

\* C12: a tick that fires at timeLeft = 0 decrements nothing; the driver stops, and the
\* state it publishes on stopping is running = false with timeLeft = 0.
C12_StopAtZero ==
    /\ [][\A d \in DriverIds :
            drv[d].pc = "tick" /\ drv'[d].pc # "tick" /\ tmState.TimeLeft = 0
                => tmState' = tmState /\ drv'[d].pc = "pause"]_vars
    /\ [][\A d \in DriverIds : AtZero(d) /\ drv'[d].pc # drv[d].pc
                => drv'[d].pc \in {"pause_bcast", "defer"}]_vars
    /\ [](\A d \in DriverIds : drv[d].pc = "pause_bcast"
                => ~tmState.Running /\ tmState.TimeLeft = 0)

\* ------------------------------------------------------ connection claims
\* serveWs completes one of its sends in this step
SetupSent(c) ==
    /\ srv[c].pc \in {"send_timer", "send_result", "send_mode"}
    /\ srv'[c].pc \notin {srv[c].pc, "panicked"}

\* the type of the message each send of serveWs carries
SetupType(pc) == CASE pc = "send_timer" -> "timer_update" [] pc = "send_result" -> "set_result"
                   [] pc = "send_mode" -> "display_mode"

\* C13: serveWs enqueues to its connection first a timer_update with the timer state,
\* then a set_result with the active result if and only if one is set, then a
\* display_mode with the connection's display mode (show_result if unset).
C13_SetupOrder ==
    [][\A c \in Conns :
        /\ srv[c].pc = "timer" /\ srv'[c].pc # "timer"
              => srv'[c] = [pc |-> "send_timer", msg |-> TimerUpdate(tmState)]
        /\ SetupSent(c)
              => /\ srv[c].msg.type = SetupType(srv[c].pc)
                 /\ sendQ'[c] = Append(sendQ[c], srv[c].msg)
                 /\ srv'[c].pc = CASE srv[c].pc = "send_timer" -> "result"
                                   [] srv[c].pc = "send_result" -> "mode"
                                   [] srv[c].pc = "send_mode" -> "done"
        /\ srv[c].pc = "result" /\ srv'[c].pc # "result"
              => IF ActiveResult = "" THEN srv'[c].pc = "mode" /\ sendQ'[c] = sendQ[c]
                 ELSE srv'[c] = [pc |-> "send_result", msg |-> SetResultMsg(ActiveResult)]
        /\ srv[c].pc = "mode" /\ srv'[c].pc # "mode"
              => srv'[c] = [pc |-> "send_mode",
                            msg |-> DisplayModeMsg(IF client[c].DisplayMode = ""
                                                   THEN "show_result"
                                                   ELSE client[c].DisplayMode)]]_vars

\* serveWs has enqueued the timer state and the active result and is about to enqueue a
\* display mode that a command has already changed
C13_Witness ==
    \E c \in Conns :
        /\ srv[c].pc = "send_mode" /\ srv[c].msg = DisplayModeMsg("show_timer")
        /\ ActiveResult # "" /\ sendQ[c] = <<SetResultMsg(ActiveResult)>>

\* C14: while a reader handles an inbound message of its connection, serveWs has
\* already enqueued all initial messages of that connection.
C14_SetupBeforeDispatch ==
    \A c \in Conns : rd[c].pc \notin {"none", "read", "unregister", "done"} => srv[c].pc = "done"

\* ---------------------------------------------------------- routing claims
\* the hub loop takes a job from Hub.SendTo in this step
SendToTaken == Len(SendTo') < Len(SendTo)

\* C15: sendTo(connection, message) makes one non-blocking enqueue if the connection is
\* live and has room; if it is live and full it leaves the live set in the same step and
\* its queue is closed next; if it is not live nothing is enqueued and nothing changes.
\* The hub loop is never held up: it can always take the next job when idle.
C15_SendTo ==
    /\ [][SendToTaken =>
            LET job == Head(SendTo)
                t == job.Client
            IN  /\ SendTo' = Tail(SendTo)
                /\ closes' = closes
                /\ \A c \in Conns \ {t} : sendQ'[c] = sendQ[c]
                /\ IF t \in Clients /\ Len(sendQ[t]) < SendCap
                   THEN /\ sendQ'[t] = Append(sendQ[t], job.Msg)
                        /\ Clients' = Clients /\ hub'.pc = "idle"
                   ELSE IF t \in Clients
                   THEN /\ sendQ'[t] = sendQ[t] /\ Clients' = Clients \ {t}
                        /\ hub'.pc = "closing" /\ hub'.toRemove = {t}
                   ELSE sendQ'[t] = sendQ[t] /\ Clients' = Clients /\ hub'.pc = "idle"]_vars
    /\ [][hub.pc = "closing" /\ hub'.pc # "closing"
            => \A c \in hub.toRemove : closes'[c] = 1]_vars
    /\ [](hub.pc = "idle" /\ SendTo # <<>> /\ ~crashed => ENABLED HubSendTo)

\* the admin's job has been taken from Hub.SendTo and its target, found full, is out of
\* the live set with its close still to come; the admin has not yet built the roster
C15_Witness ==
    \E t \in Conns :
        /\ hub.pc = "closing" /\ hub.toRemove = {t} /\ SendTo = <<>>
        /\ rd[Admin].pc = "roster_snap" /\ rd[Admin].msg.Client = t
        /\ sendQ[t] # <<>> /\ closes[t] = 0

\* ----------------------------------------------------------- roster claims
\* the order the roster is to have: by lower-cased name, then by address
RosterBefore(a, b) ==
    \/ StrLess(ToLower(a.name), ToLower(b.name))
    \/ ToLower(a.name) = ToLower(b.name) /\ a.addr < b.addr

\* C16: every roster the hub loop publishes is ordered by name ignoring case and, among
\* names equal ignoring case, by address; so the live set determines the roster,
\* whatever order the map iteration visits it in.
C16_RosterOrdered ==
    /\ hub.pc = "roster_bcast" =>
          \A i, j \in 1..Len(hub.msg.payload) :
              i < j => RosterBefore(hub.msg.payload[i], hub.msg.payload[j])
    /\ hub.pc = "roster_snap" => Cardinality(ClientLists) = 1

\* ---------------------------------------------------------- command claims
\* the reader of c finds the target of a client_command in the live set in this step
CommandTaken(c) == rd[c].pc = "read" /\ rd'[c].pc = "sendto"

\* the roster entries of the connection at the address of t
EntriesOf(list, t) == {i \in 1..Len(list) : list[i].addr = Addr(t)}

UnregisterTaken(c) == rd[c].pc = "unregister" /\ rd'[c].pc = "done"

\* C18: an unregister of a connection that is not in the live set (refused, evicted, or
\* not registered) changes neither the live set nor any queue, open or closed, nor the
\* active result, raises nothing, and is followed by a roster publish.
C18_UnregisterIdempotent ==
    [][\A c \in Conns : UnregisterTaken(c) /\ c \notin Clients =>
          /\ Clients' = Clients
          /\ closes' = closes /\ closeOnce' = closeOnce
          /\ sendQ' = sendQ
          /\ ActiveResult' = ActiveResult
          /\ crashed' = crashed
          /\ hub'.pc = "roster_snap"]_vars

\* the unregister of a refused connection and that of an evicted one have been handled
C18_Witness ==
    \E c, d \in Conns :
        /\ rd[c].pc = "done" /\ errAttempts[c] = 1 /\ closes[c] = 1
        /\ rd[d].pc = "done" /\ errAttempts[d] = 0 /\ closes[d] = 1 /\ wr[d] = "done"
        /\ Clients = {}

\* ---------------------------------------------------- the roster of a register
\* the hub loop is in the broadcastClientList that follows the successful register of c
RegisterPublish(c) ==
    hub.pc \in {"roster_snap", "roster_bcast"} /\ hub.client = c /\ hub.branch = "register"

\* the addresses a client_list message lists
RosterAddrs(m) == {m.payload[i].addr : i \in 1..Len(m.payload)}

\* C19 as stated: the roster published after the successful register of c contains c and
\* is enqueued to every live connection, c included.
C19_AsStated ==
    [][\A c \in Conns :
          RegisterPublish(c) /\ hub.pc = "roster_bcast" /\ hub'.pc # "roster_bcast" =>
              /\ Addr(c) \in RosterAddrs(hub.msg)
              /\ sendQ'[c] = Append(sendQ[c], hub.msg)
              /\ \A x \in Clients : sendQ'[x] = Append(sendQ[x], hub.msg)]_vars

\* C19: a successful register adds the connection to the live set and goes on to publish
\* a roster; that roster lists exactly the connections live when it is built (the new one
\* unless it has been evicted since) and is enqueued to every connection then live whose
\* queue has room, while a live connection with a full queue, the new one included, is
\* evicted and gets nothing.
C19_RegisterRoster ==
    /\ [][\A c \in Conns : RegisterTaken(c) /\ ~LimitReached =>
              /\ Clients' = Clients \cup {c}
              /\ hub'.pc = "roster_snap" /\ hub'.client = c
              /\ RegisterPublish(c)']_vars
    /\ [][\A c \in Conns : RegisterPublish(c) /\ hub.pc = "roster_snap" /\ hub'.pc # "roster_snap" =>
              /\ hub'.pc = "roster_bcast" /\ hub'.client = c
              /\ hub'.msg.type = "client_list"
              /\ Len(hub'.msg.payload) = Cardinality(Clients)
              /\ RosterAddrs(hub'.msg) = {Addr(x) : x \in Clients}]_vars
    /\ [][\A c \in Conns : RegisterPublish(c) /\ hub.pc = "roster_bcast" /\ hub'.pc # "roster_bcast" =>
              \A x \in Conns :
                  /\ x \in Clients /\ Len(sendQ[x]) < SendCap
                        => sendQ'[x] = Append(sendQ[x], hub.msg) /\ x \in Clients'
                  /\ x \in Clients /\ Len(sendQ[x]) >= SendCap
                        => sendQ'[x] = sendQ[x] /\ x \notin Clients'
                  /\ x \notin Clients => sendQ'[x] = sendQ[x]]_vars
    /\ [][\A c \in Conns : hub.pc = "idle" /\ hub'.pc = "roster_snap" /\ hub'.client = c =>
              (RegisterPublish(c)' <=> RegisterTaken(c))]_vars

\* the roster built after the register of a second connection lists both connections and
\* is about to be enqueued to both
C19_Witness ==
    \E c \in Conns :
        /\ c # Admin /\ RegisterPublish(c) /\ hub.pc = "roster_bcast"
        /\ Clients = {Admin, c}
        /\ RosterAddrs(hub.msg) = {Addr(Admin), Addr(c)}
        /\ sendQ[c] = <<>> /\ sendQ[Admin] = <<>>

\* ------------------------------------------------ concurrent set_result
\* the files the admin pages choose between
ResultFiles == Files \cup {"heat1.html"}

\* connections arrive one after the other, are all accepted and stay; each may send
\* set_result messages for any file; slow consumers are evicted; the timer stays idle
ResultNext ==
    \/ SetupCore
    \/ \E c \in Conns, f \in ResultFiles : ReadSetResult(c, f)
    \/ \E c \in Conns : HubBroadcastResult(c)

ResultSpec == TimerInit /\ [][ResultNext]_vars

\* the reader of c has stored its file and has not handed its envelope to the hub yet
ResultPending(c) == rd[c].pc = "set_result"

\* the hub loop takes the set_result envelope of c and broadcasts it in this step
ResultBroadcast(c) == ResultPending(c) /\ ~ResultPending(c)'

\* C20: the set_result envelopes are broadcast in the order in which their writes of the
\* active result took effect, so the broadcast that completes the last outstanding
\* request names the stored active result.
C20_ResultSerialized ==
    [][\A c \in Conns :
          ResultBroadcast(c) /\ (\A o \in Conns \ {c} : ~ResultPending(o))
              => rd[c].msg.file = ActiveResult]_vars

\* ------------------------------------------------- the timer with the registry
\* registration, setup and delivery of the admin connection
AdminSetup ==
    \/ ServeWsStart(Admin)
    \/ HubRegister(Admin)
    \/ HubClose
    \/ HubRosterSnap
    \/ HubRosterBroadcast
    \/ ServeWsTimer(Admin)
    \/ ServeWsSend(Admin)
    \/ ServeWsResult(Admin)
    \/ ServeWsMode(Admin)
    \/ WriterWrite(Admin)
    \/ WriterClosed(Admin)

\* the admin connection arrives, is accepted and sends timer_control messages; it is
\* evicted if it does not keep up
EngineNext ==
    \/ AdminSetup
    \/ \E a \in {"start", "pause"} : ReadTimerControl(Admin, a, 0)
    \/ \E s \in Seconds : ReadTimerControl(Admin, "reset", s)
    \/ TimerActions

EngineSpec == TimerInit /\ [][EngineNext]_vars

\* ------------------------------------------------------------- lock claims
\* the goroutine p is inside broadcastState, in the blocking send on Hub.Broadcast
InBroadcastState(p) ==
    \/ \E c \in Conns : p = Reader(c) /\ rd[c].pc \in TimerBcastPcs
    \/ \E d \in DriverIds : p = Driver(d) /\ drv[d].pc \in {"tick_bcast", "pause_bcast"}

\* C21: the holder of the timer lock is in no section of the registry lock, and it is
\* not waiting for the hub loop: whenever the timer lock is held the hub loop is in its
\* select, ready to receive.
C21_NoWaitUnderLock ==
    /\ tmMu # NoProc => InBroadcastState(tmMu)
    /\ tmMu # NoProc => hub.pc = "idle"

\* --------------------------------------------------- progress of the hub loop
\* the admin connection arrives, is accepted, sends handshakes, set_result messages and
\* show_timer commands for its own address, is evicted if it does not keep up, and drops
\* at any time
LoopNext ==
    \/ AdminSetup
    \/ Routing
    \/ ReadClientCommand(Admin, Addr(Admin), "show_timer", "")
    \/ \E f \in Files : ReadSetResult(Admin, f)
    \/ HubBroadcastResult(Admin)
    \/ \E i \in IDs : ReadHandshake(Admin, "bob", i)
    \/ HubHandshake(Admin)
    \/ ReadError(Admin)
    \/ HubUnregister(Admin)

\* the steps the hub loop takes by itself once it has received a request
HubStep == HubClose \/ HubRosterSnap \/ HubRosterBroadcast

\* the hub loop runs whenever it can, and its select picks at random among the ready
\* cases, so a sender that stays blocked on a hub channel is eventually received
FairLoopSpec ==
    /\ TimerInit /\ [][LoopNext]_vars
    /\ WF_vars(HubStep)
    /\ SF_vars(HubSendTo)
    /\ SF_vars(HubRegister(Admin)) /\ SF_vars(HubUnregister(Admin))
    /\ SF_vars(HubHandshake(Admin)) /\ SF_vars(HubBroadcastResult(Admin))

\* C22: whenever the hub loop is inside a case it can take its next step, whatever the
\* connections do, so it always returns to its select; and every register, unregister,
\* handshake, broadcast and sendTo request that is pending is eventually received.
C22_HubProgress ==
    /\ [](hub.pc # "idle" => ENABLED HubStep)
    /\ hub.pc # "idle" ~> hub.pc = "idle"
    /\ \A c \in Conns : srv[c].pc = "register" ~> srv[c].pc # "register"
    /\ \A c \in Conns : rd[c].pc = "unregister" ~> rd[c].pc = "done"
    /\ \A c \in Conns : rd[c].pc = "handshake" ~> rd[c].pc # "handshake"
    /\ \A c \in Conns : rd[c].pc = "set_result" ~> rd[c].pc # "set_result"
    /\ SendTo # <<>> ~> SendTo = <<>>

\* the hub loop is publishing a roster to a connection whose queue is full while a
\* reader waits to unregister and a targeted job is queued
C22_Witness ==
    /\ hub.pc = "roster_bcast"
    /\ \E c \in Clients : SendFull(c)
    /\ \E c \in Conns : rd[c].pc = "unregister"
    /\ SendTo # <<>>

\* ------------------------------------------------- decoding inbound messages
\* what ReadMessage hands to the reader, as far as the decoding looks at it: whether it
\* is JSON for a Message, its type, whether its payload parses into the struct of that
\* type, and the action of a timer_control
Arrived(json, type, payloadOk, action) ==
    [json |-> json, type |-> type, payloadOk |-> payloadOk, action |-> action]

\* a well-formed client_command
ArrivedCommand(target, command, value) ==
    [json |-> TRUE, type |-> "client_command", payloadOk |-> TRUE, action |-> "",
     target |-> target, command |-> command, value |-> value]

KnownTypes == {"timer_control", "handshake", "set_result", "client_command"}
TimerControlActions == {"start", "pause", "reset"}

\* the inbound messages tried: not JSON, an unknown type, each known type with a payload
\* that does not parse, a timer_control with an unknown action, and a well-formed start
Wire ==
    {Arrived(FALSE, "", FALSE, ""), Arrived(TRUE, "timer", TRUE, "start")}
        \cup {Arrived(TRUE, t, FALSE, "") : t \in KnownTypes}
        \cup {Arrived(TRUE, "timer_control", TRUE, a) : a \in {"start", "stop"}}

\* a reader that passes any action of a parsed timer_control on
DispatchAnyAction(raw) ==
    IF raw.json /\ raw.type \in KnownTypes /\ raw.payloadOk
    THEN IF raw.type = "timer_control" THEN raw.action ELSE raw.type
    ELSE "drop"

\* json.Unmarshal into Message, the switch on msg.Type, json.Unmarshal of the payload and
\* the if-chain on payload.Action: the handler that runs, or "drop"
Dispatch(raw) ==
    IF ~raw.json THEN "drop"
    ELSE IF raw.type = "timer_control"
         THEN IF raw.payloadOk /\ raw.action \in TimerControlActions THEN raw.action ELSE "drop"
    ELSE IF raw.type \in KnownTypes
         THEN IF raw.payloadOk THEN raw.type ELSE "drop"
    ELSE "drop"

\* a read loop that takes the next message while the handler of the last one is running
ReadMessageEarly(c, raw) ==
    /\ ~crashed
    /\ rd[c].pc \notin {"none", "unregister", "done"}
    /\ ~connClosed[c]
    /\ rd' = [rd EXCEPT ![c].pc = "decode", ![c].msg = raw]
    /\ readDeadline' = [readDeadline EXCEPT ![c].quiet = 0]
    /\ UNCHANGED <<timerVars, hubVars, srv, wr, sendQ, closeOnce, closes, client, connClosed,
                   errAttempts>>

\* c.Conn.ReadMessage() returns a message
ReadMessage(c, raw) ==
    /\ ~crashed
    /\ rd[c].pc = "read"
    /\ ~connClosed[c]
    /\ rd' = [rd EXCEPT ![c].pc = "decode", ![c].msg = raw]
    /\ readDeadline' = [readDeadline EXCEPT ![c].quiet = 0]
    /\ UNCHANGED <<timerVars, hubVars, srv, wr, sendQ, closeOnce, closes, client, connClosed,
                   errAttempts>>

\* the decoding of the message read: a dropped message takes the reader back to
\* ReadMessage, a timer_control goes on to its TimerManager call
ReadDispatch(c) ==
    /\ ~crashed
    /\ rd[c].pc = "decode"
    /\ LET raw == rd[c].msg IN
           IF Dispatch(raw) = "client_command"
           THEN CommandLocked(c, raw.target, raw.command, raw.value)
           ELSE /\ rd' = IF Dispatch(raw) = "drop" THEN [rd EXCEPT ![c] = RdIdle]
                         ELSE [rd EXCEPT ![c].pc = Dispatch(raw),
                                         ![c].msg = [type |-> "timer_control",
                                                     action |-> raw.action, seconds |-> 0]]
                /\ UNCHANGED client
    /\ UNCHANGED <<timerVars, hubVars, srv, wr, sendQ, closeOnce, closes, connClosed,
                   readDeadline, errAttempts>>

\* the admin connection arrives, is accepted and sends resets, pauses and whatever else
\* it likes, a well-formed start included
InboundNext ==
    \/ AdminSetup
    \/ ReadTimerControl(Admin, "pause", 0)
    \/ \E s \in Seconds : ReadTimerControl(Admin, "reset", s)
    \/ \E raw \in Wire : ReadMessage(Admin, raw)
    \/ ReadDispatch(Admin)
    \/ TimerActions

InboundSpec == TimerInit /\ [][InboundNext]_vars

\* the commands tried: a display mode, a rename, and a string that is neither
Commands == {"show_timer", "rename", "blank"}

\* connections arrive one after the other, are all accepted and drop at any time; the
\* admin connection sends commands for the addresses of the others; slow consumers are
\* evicted; the timer stays idle
CommandNext ==
    \/ SetupCore
    \/ Routing
    \/ \E c \in Conns : ReadError(c)
    \/ \E c \in Conns : HubUnregister(c)
    \/ \E t \in Conns \ {Admin}, k \in Commands :
           ReadMessage(Admin, ArrivedCommand(Addr(t), k, "bob"))
    \/ ReadDispatch(Admin)

CommandSpec == TimerInit /\ [][CommandNext]_vars

\* ------------------------------------------------------- dispatcher claims
\* not JSON, an unknown type, a payload that does not parse, or an unknown action
Malformed(raw) ==
    \/ ~raw.json
    \/ raw.type \notin KnownTypes
    \/ ~raw.payloadOk
    \/ raw.type = "timer_control" /\ raw.action \notin TimerControlActions

\* C23: a message that is not valid JSON, has an unknown type, a payload that does not
\* parse for its type, or is a timer_control with an unknown action changes neither the
\* timer, the live set, the active result nor any display mode, sends nothing, and
\* leaves the reader at its next ReadMessage on an open socket.
C23_MalformedDropped ==
    [][\A c \in Conns : rd[c].pc = "decode" /\ rd'[c].pc # "decode" /\ Malformed(rd[c].msg) =>
          /\ UNCHANGED <<tmState, ticker, stopChan, tmMu, goroutineRunning, drv>>
          /\ UNCHANGED <<Clients, ActiveResult, client>>
          /\ UNCHANGED <<sendQ, SendTo, hub, closes, connClosed, readDeadline>>
          /\ rd'[c] = RdIdle]_vars

\* a malformed message has been read by a live connection while the countdown runs
C23_Witness ==
    \E c \in Clients :
        /\ rd[c].pc = "decode" /\ Malformed(rd[c].msg) /\ rd[c].msg.type = "timer_control"
        /\ rd[c].msg.payloadOk
        /\ tmState.Running /\ tmState.TimeLeft > 0 /\ ~connClosed[c]

\* C24: a client_command whose target address matches no connection in the live set
\* changes no display mode and no name, submits no targeted job, enqueues nothing,
\* publishes no roster (the reader goes straight back to ReadMessage) and closes nothing.
C24_NoTargetDropped ==
    [][\A c \in Conns :
          /\ rd[c].pc = "decode" /\ rd'[c].pc # "decode"
          /\ Dispatch(rd[c].msg) = "client_command"
          /\ \A t \in Clients : Addr(t) # rd[c].msg.target
          => /\ UNCHANGED <<client, SendTo, sendQ, Clients, closes, connClosed, readDeadline, hub>>
             /\ rd'[c] = RdIdle]_vars

\* a command for the address of a connection that has come and gone has been read
C24_Witness ==
    \E c \in Conns, t \in Conns :
        /\ rd[c].pc = "decode" /\ Dispatch(rd[c].msg) = "client_command"
        /\ rd[c].msg.target = Addr(t) /\ rd[c].msg.command = "show_timer"
        /\ t \notin Clients /\ rd[t].pc = "done" /\ c \in Clients

\* the reader hands a targeted job to Hub.SendTo in this step
JobSubmitted(c) == rd[c].pc = "sendto" /\ rd'[c].pc # "sendto"

\* C25: a rename command for a live target changes neither the target's display mode
\* nor its name, nor the live set, nor the timer; the reader then submits exactly one
\* job for that connection, an update_config {ClientName, value}, and returns to
\* ReadMessage without publishing a roster.
C25_Rename ==
    [][\A c \in Conns :
          /\ rd[c].pc = "decode" /\ rd'[c].pc # "decode"
             /\ Dispatch(rd[c].msg) = "client_command" /\ rd[c].msg.command = "rename"
             /\ (\E t \in Clients : Addr(t) = rd[c].msg.target)
             => /\ UNCHANGED <<client, Clients, SendTo, sendQ, tmState, hub>>
                /\ rd'[c].pc = "sendto"
                /\ rd'[c].msg.Client \in Clients /\ Addr(rd'[c].msg.Client) = rd[c].msg.target
                /\ rd'[c].msg.Msg = UpdateConfigMsg(rd[c].msg.value)
          /\ JobSubmitted(c) /\ rd[c].msg.Msg.type = "update_config"
             => /\ SendTo' = Append(SendTo, rd[c].msg)
                /\ rd'[c] = RdIdle
                /\ UNCHANGED <<client, Clients, sendQ, tmState, hub>>]_vars

\* the update_config of a rename has reached the queue of its live target and the reader
\* is back at ReadMessage
C25_Witness ==
    \E c \in Conns, t \in Clients :
        /\ rd[c].pc = "read"
        /\ sendQ[t] = <<UpdateConfigMsg("bob")>>
        /\ client[t].Name = "" /\ client[t].DisplayMode = ""

\* C26: a well-formed set_result {file} stores file as the active result in a step that
\* sends nothing and leaves the reader holding the envelope it received; the hub loop
\* then broadcasts that envelope: every live connection with room, the sender among
\* them, gets it appended, and full ones are evicted.
C26_SetResult ==
    [][\A c \in Conns :
          /\ rd[c].pc = "read" /\ ResultPending(c)'
             => /\ ActiveResult' \in ResultFiles
                /\ rd'[c].msg = [type |-> "set_result", file |-> ActiveResult']
                /\ UNCHANGED <<sendQ, SendTo, Clients, hub, closes>>
          /\ ResultBroadcast(c)
             => /\ ActiveResult' = ActiveResult
                /\ \A x \in Clients :
                      IF Len(sendQ[x]) < SendCap
                      THEN sendQ'[x] = Append(sendQ[x], rd[c].msg) /\ x \in Clients'
                      ELSE sendQ'[x] = sendQ[x] /\ x \notin Clients'
                /\ \A x \in Conns \ Clients : sendQ'[x] = sendQ[x]]_vars

\* after their setup both connections, the sender included, hold the broadcast envelope
\* of the stored file
C26_Witness ==
    /\ Clients = Conns
    /\ ActiveResult = "heat1.html"
    /\ \A c \in Conns : srv[c].pc = "done" /\ rd[c].pc = "read"
    /\ \A c \in Conns : sendQ[c] = <<[type |-> "set_result", file |-> "heat1.html"]>>

\* C27: the stored display mode of every connection is unset or one of show_timer and
\* show_result.
C27_DisplayModeValues ==
    \A c \in Conns : client[c].DisplayMode \in {""} \cup Modes

\* ------------------------------------------------------- timer state claims
\* C28: TimeLeft is never negative, whatever timer_control messages arrive.
C28_TimeLeftNonNegative == tmState.TimeLeft >= 0

\* the driver goroutines that are in their loop and will see the next tick
ActiveDrivers ==
    {d \in DriverIds : \/ drv[d].pc \in {"eval", "tick", "tick_bcast", "pause", "pause_bcast"}
                       \/ drv[d].pc = "select" /\ drv[d].tickLive}

\* C29: whenever Running is set and no timer operation is in progress a driver is in its
\* loop and will see the next tick, and when Running is clear and nothing more can
\* happen in the timer no driver goroutine is left.
C29_DriverTiedToRunning ==
    /\ tmState.Running /\ tmMu = NoProc /\ ~crashed => ActiveDrivers # {}
    /\ ~tmState.Running /\ ~crashed /\ ~ENABLED TimerActions => LiveDrivers = {}

\* the reader of c is inside Reset, after the start of its Pause call and before its two
\* assignments
InsideReset(c) == rd[c].pc \in {"reset_pause_bcast", "reset_lock"}

\* C30: between the pause step of a reset and its assignments no start and no tick
\* changes the timer state, and when reset(n) returns the state is Running = false,
\* TimeLeft = TotalTime = n.
C30_ResetAtomic ==
    /\ [][\A c \in Conns : InsideReset(c) =>
              /\ \A o \in Conns : StartSteps(o) => tmState' = tmState
              /\ \A d \in DriverIds : ~TickDecrements(d)]_vars
    /\ [][\A c \in Conns : rd[c].pc = "reset_bcast" /\ rd'[c].pc = "read" =>
              tmState' = [Running |-> FALSE, TimeLeft |-> rd[c].msg.seconds,
                          TotalTime |-> rd[c].msg.seconds]]_vars

\* C31: pause() on a timer that is not running changes no timer field and publishes
\* nothing; pause() on a running timer clears Running, leaves TimeLeft and TotalTime as
\* they are, and publishes that state once, before anything else can change it.
C31_Pause ==
    /\ [][\A c \in Conns :
            /\ rd[c].pc = "pause" /\ rd'[c].pc # "pause" /\ ~tmState.Running
               => /\ UNCHANGED <<tmState, ticker, stopChan, tmMu, sendQ, hub>>
                  /\ rd'[c] = RdIdle
            /\ rd[c].pc = "pause" /\ rd'[c].pc # "pause" /\ tmState.Running
               => /\ tmState' = [Running |-> FALSE, TimeLeft |-> tmState.TimeLeft,
                                 TotalTime |-> tmState.TotalTime]
                  /\ rd'[c].pc = "pause_bcast"
                  /\ UNCHANGED sendQ
            /\ rd[c].pc = "pause_bcast" /\ rd'[c].pc # "pause_bcast"
               => /\ tmState' = tmState /\ ~tmState.Running
                  /\ rd'[c] = RdIdle
                  /\ \A x \in Clients : ~SendFull(x) =>
                         sendQ'[x] = Append(sendQ[x], [type |-> "timer_update", payload |-> tmState])]_vars
    /\ [](\A c \in Conns : rd[c].pc = "pause_bcast" => tmMu = Reader(c))

\* the update of a pause at one second left has reached the queue of the connection
\* that sent it
C31_Witness ==
    \E c \in Clients :
        /\ rd[c].pc = "read" /\ srv[c].pc = "done"
        /\ ~tmState.Running /\ tmState.TimeLeft = 1 /\ tmState.TotalTime = 2
        /\ sendQ[c] = <<[type |-> "timer_update", payload |-> tmState]>>

\* C32: every connection whose reader has terminated is eventually out of the live set
\* with its outbound queue closed (the roster published after that removal is the one
\* taken once the connection has left the set).
C32_ReaderGone ==
    \A c \in Conns : rd[c].pc = "done" ~> (c \notin Clients /\ closes[c] > 0)

\* the hub loop as in FairLoopSpec, with the two pumps running whenever they can: the
\* writer receives from its queue, a reader inside a handler goes on to the handler's
\* end, and a ReadMessage on a socket that has been closed returns an error
FairPumpSpec ==
    /\ FairLoopSpec
    /\ \A c \in Conns : WF_vars(WriterWrite(c) \/ WriterClosed(c))
    /\ \A c \in Conns : SF_vars(ReaderSendTo(c) \/ ReaderRosterSnap(c)
                                    \/ ReaderRosterBroadcast(c) \/ ReaderClose(c))
    /\ \A c \in Conns : WF_vars(connClosed[c] /\ ReadError(c))

\* C33: once a broadcast or a targeted send has found the queue of a connection full and
\* taken it out of the live set, its writer terminates, its reader unregisters, and a
\* roster that does not list the connection is eventually published.
C33_EvictionChain ==
    \A c \in Conns :
        /\ (hub.pc = "closing" /\ c \in hub.toRemove) ~> wr[c] = "done"
        /\ (hub.pc = "closing" /\ c \in hub.toRemove) ~> rd[c].pc = "done"
        /\ (hub.pc = "closing" /\ c \in hub.toRemove)
              ~> (hub.pc = "roster_bcast" /\ Addr(c) \notin RosterAddrs(hub.msg))

\* ------------------------------------------------- the read deadline
\* one unit of time passes while the reader waits in ReadMessage
TimePasses(c) ==
    /\ ~crashed
    /\ rd[c].pc = "read"
    /\ ~connClosed[c]
    /\ readDeadline[c].left > 0
    /\ readDeadline' = [readDeadline EXCEPT
                           ![c].left = @ - 1,
                           ![c].quiet = IF @ < PongWait THEN @ + 1 ELSE @]
    /\ UNCHANGED <<timerVars, hubVars, srv, rd, wr, sendQ, closeOnce, closes, client,
                   connClosed, errAttempts>>

\* a pong arrives: the pong handler sets the read deadline to now + pongWait
ReadPong(c) ==
    /\ ~crashed
    /\ rd[c].pc = "read"
    /\ ~connClosed[c]
    /\ readDeadline' = [readDeadline EXCEPT ![c] = [left |-> PongWait, quiet |-> 0]]
    /\ UNCHANGED <<timerVars, hubVars, srv, rd, wr, sendQ, closeOnce, closes, client,
                   connClosed, errAttempts>>

\* the read deadline has passed: ReadMessage returns a timeout error
ReadTimeout(c) ==
    /\ readDeadline[c].left = 0
    /\ ReadError(c)

\* the admin connection sends messages and pongs while time passes
DeadlineNext ==
    \/ AdminSetup
    \/ Routing
    \/ \E raw \in {r \in Wire : Dispatch(r) = "drop"} : ReadMessage(Admin, raw)
    \/ ReadMessage(Admin, ArrivedCommand(Addr(Admin), "show_timer", ""))
    \/ ReadDispatch(Admin)
    \/ TimePasses(Admin)
    \/ ReadPong(Admin)
    \/ ReadTimeout(Admin)
    \/ HubUnregister(Admin)

DeadlineSpec == TimerInit /\ [][DeadlineNext]_vars

\* C34: a reader is stopped by its read deadline only when neither a message nor a pong
\* has been read from the connection for a whole deadline window.
C34_ClosedOnlyWhenQuiet ==
    [][\A c \in Conns :
          rd[c].pc = "read" /\ rd'[c].pc = "unregister" /\ readDeadline[c].left = 0
              => readDeadline[c].quiet >= PongWait]_vars

\* C35: a reader takes a message only when the handler of the message before it has
\* returned, the timer call it made included: no handler of the connection is in progress
\* and the connection holds no timer lock when a message is read, and a handler that
\* returns has released the timer lock.
C35_OneAtATime ==
    [][\A c \in Conns :
          /\ rd'[c].pc = "decode" /\ rd[c].pc # "decode"
                => rd[c] = RdIdle /\ tmMu # Reader(c)
          /\ rd[c].pc \notin {"none", "read", "decode"} /\ rd'[c].pc # rd[c].pc
                => rd'[c].pc \notin {"decode"} /\ rd'[c].msg \in {rd[c].msg, NoMsg}
          /\ rd'[c].pc = "read" /\ rd[c].pc # "read" => tmMu' # Reader(c)]_vars

\* the reader has taken a stop message after the handlers of a reset and of a start have
\* returned: the timer is running and unlocked
C35_Witness ==
    \E c \in Conns :
        /\ rd[c].pc = "decode" /\ rd[c].msg.action = "stop"
        /\ tmState.Running /\ tmState.TimeLeft = 1 /\ tmMu = NoProc

\* C36: a connection whose outbound queue has been closed is not in the live set, a
\* close never leaves its connection in the live set, and every enqueue made by the hub
\* loop or by a broadcast (every enqueue but those of the connection's own setup and the
\* error message of a rejection) goes to a live connection with an open queue.
C36_ClosedNotLive ==
    /\ [](\A c \in Conns : closes[c] > 0 => c \notin Clients)
    /\ [][\A c \in Conns :
            /\ closes'[c] > closes[c] => c \notin Clients'
            /\ Len(sendQ'[c]) > Len(sendQ[c]) /\ srv'[c] = srv[c] /\ hub.pc # "reject_send"
                  => c \in Clients /\ closes[c] = 0 /\ ~crashed']_vars

\* a roster that lists one connection only is in the queue of that connection while the
\* other connection, registered before, is out of the live set with its queue closed
C36_Witness ==
    \E c \in Clients, o \in Conns \ Clients :
        /\ closes[o] = 1 /\ srv[o].pc = "done"
        /\ sendQ[c] # <<>>
        /\ sendQ[c][Len(sendQ[c])].type = "client_list"
        /\ RosterAddrs(sendQ[c][Len(sendQ[c])]) = {Addr(c)}

\* C37: the timer_update messages enqueued to a connection are in the order of the timer
\* states. Every state change is broadcast before the timer lock is released, so when the
\* setup snapshot is enqueued to a live connection while the timer lock is free, every
\* later state has been enqueued to it already: the snapshot must carry the current state.
C37_SnapshotInOrder ==
    [][\A c \in Conns :
          /\ srv[c].pc = "send_timer" /\ srv'[c].pc # "send_timer"
          /\ c \in Clients /\ tmMu = NoProc
          /\ Len(sendQ'[c]) > Len(sendQ[c])
          => srv[c].msg.payload = tmState]_vars

\* C38: once no command is in flight, the last display_mode enqueued to a live connection
\* is its stored display mode. So when the display_mode of the setup is enqueued to a live
\* connection while no command for it is in flight (none decoded and unhandled, none
\* waiting for or inside the SendTo channel), it must carry the stored mode.
C38_LastModeIsStored ==
    [][\A c \in Conns :
          /\ srv[c].pc = "send_mode" /\ srv'[c].pc # "send_mode"
          /\ Len(sendQ'[c]) > Len(sendQ[c])
          /\ c \in Clients
          /\ \A r \in Conns : rd[r].pc \notin {"decode", "sendto"}
          /\ SendTo = <<>>
          => srv[c].msg.payload = ClientInfo(c).display_mode]_vars

\* C39: once nothing is pending, the last client_list enqueued to the live connections
\* lists exactly the live set with the current display modes. So a roster that a reader
\* publishes without evicting anyone, while the hub loop is idle, no registration, command
\* or other roster is pending and no connection outside the live set has a reader that
\* is still to unregister, must be a roster of the current live set: otherwise it is an
\* older snapshot delivered after a newer one.
C39_LastRosterCurrent ==
    [][\A r \in Conns :
          /\ rd[r].pc = "roster_bcast" /\ rd'[r].pc = "read"
          /\ hub.pc = "idle" /\ SendTo = <<>>
          /\ \A c \in Conns : srv[c].pc # "register"
          /\ \A o \in Conns \ {r} : rd[o].pc \in {"none", "read", "done"}
          /\ \A c \in Conns \ Clients : rd[c].pc \in {"none", "done"}
          /\ BroadcastEvicted = {} /\ Clients # {}
          => rd[r].msg \in ClientLists]_vars

\* C40: a message from a connection that has been rejected, evicted or unregistered (its
\* registration was handled and it is not in the live set) never changes the active
\* result.
C40_OnlyMembersWrite ==
    [][\A c \in Conns :
          rd[c].pc = "read" /\ rd'[c].pc = "set_result" /\ ActiveResult' # ActiveResult
              => ~Departed(c)]_vars

====
